---- MODULE Spec2Model ----
(***************************************************************************)
(* Model of the LogiQDominicus signals engine (src/signals-engine): the    *)
(* feed generators run_swing.py and generate_signals.py, the demo-feed     *)
(* fallback make_demo_feeds.py and the site copier normalize_and_copy.py.  *)
(*                                                                         *)
(* Numbers.  Prices are integers in units of 1e-5, probabilities and       *)
(* scores are integers in units of 1e-4, so that the code's round(x, 4)    *)
(* on prices and round(x, 3) on probabilities are real roundings (to a     *)
(* multiple of 10) and not the identity.  Python's round() rounds halves   *)
(* to even.                                                                *)
(*                                                                         *)
(* Frames.  A pandas frame is represented by the values the code reads     *)
(* from it (its length, the last row, the tail minima and maxima), each    *)
(* drawn from a small grid.                                                *)
(***************************************************************************)
EXTENDS Integers, Sequences, FiniteSets, TLC

----------------------------------------------------------------------------
(* Bounds of the model *)

\* number of configured symbols (symbols_equity + symbols_crypto)
NSyms == 2
\* the price grid is PriceBase + k * TickStep for k in 0..MaxTick, plus one
\* price FarGap below the grid (more than 1% away from it)
MaxTick == 1
TickStep == 4
PriceBase == 100000
FarGap == 2000

----------------------------------------------------------------------------
(* Arithmetic helpers *)

Abs(x) == IF x < 0 THEN 0 - x ELSE x

Min2(a, b) == IF a <= b THEN a ELSE b

Max2(a, b) == IF a >= b THEN a ELSE b

Range(s) == {s[k] : k \in DOMAIN s}

\* the integer nearest to num/den (den > 0), halves to the even neighbour:
\* Python's round()
RoundHalfEven(num, den) ==
    LET q == num \div den
        r == num % den
    IN  IF 2 * r < den THEN q
        ELSE IF 2 * r > den THEN q + 1
        ELSE IF q % 2 = 0 THEN q ELSE q + 1

\* round(x, 4) of a price x given in units of 1e-5
Round4(x) == 10 * RoundHalfEven(x, 10)

\* round(num/den, 4) of a price given as a fraction of 1e-5 units
Round4Frac(num, den) == 10 * RoundHalfEven(num, 10 * den)

\* round(p, 3) of a probability or score p given in units of 1e-4
Round3(p) == 10 * RoundHalfEven(p, 10)

----------------------------------------------------------------------------
(* Symbols and input grids *)

\* the symbols a configuration can list, in the order they enter the model
Pool == <<"SPY", "AAPL", "BTC-USD", "ETH-USD", "MSFT">>

\* Python's string order on the pool
LexOrder == <<"AAPL", "BTC-USD", "ETH-USD", "MSFT", "SPY">>

LexRank(sym) == CHOOSE k \in DOMAIN LexOrder : LexOrder[k] = sym

Configured == {Pool[k] : k \in 1..Min2(NSyms, Len(Pool))}

\* every order in which the configured symbols can be listed
SymbolOrders ==
    {s \in [1..Cardinality(Configured) -> Configured] :
        \A a, b \in DOMAIN s : a # b => s[a] # s[b]}

FarPrice == PriceBase - FarGap

GridPrices == {PriceBase + k * TickStep : k \in 0..MaxTick}

Prices == GridPrices \cup {FarPrice}

----------------------------------------------------------------------------
(* Feed files *)

FeedNames == {"signals.json", "signals_swing.json", "options.json",
              "swing_plus_options.json"}

\* what a file holds: kind "missing" (no file), "blank" (an empty file, as
\* open(path, "w") leaves it), "partial" (the text of a JSON array cut after
\* its first Len(items) records), "list" (a JSON array), "wrapped" (the JSON
\* object {"signals": [...]}) or "object" (a JSON object without "signals")
Content(kind, items) == [kind |-> kind, items |-> items]

Missing == Content("missing", <<>>)

Blank == Content("blank", <<>>)

VARIABLES
    prog,        \* the script that runs
    syms,        \* SYMS / symbols: the configured symbols in configured order
    cfg,         \* the values read from config.yaml
    model_pack,  \* what load_daily_model() returned
    idx,         \* position of the for loop over the symbols
    out,         \* the rows accepted so far (out / rows)
    pc,          \* where the script is
    files,       \* the files of the output directory
    before,      \* the files as they were when the script started
    score_ev,    \* what the last pass of the loop over the symbols did
    wr,          \* the write in progress on an open file
    site,        \* the files of the site's data directory
    changed,     \* make_demo_feeds: (name, result) of each write_if_empty
    raw          \* the argument of the function under study (a raw frame,
                 \* a bar series, a column list), <<>> when a script runs

\* what a script reads once and never changes
run == <<prog, syms, cfg, model_pack, before, raw>>

vars == <<prog, syms, cfg, model_pack, idx, out, pc, files, before, score_ev,
          wr, site, changed, raw>>

NoWrite ==
    [active |-> FALSE, name |-> "", kind |-> "list", payload |-> <<>>,
     stream |-> FALSE, ret |-> ""]

\* open(path, "w") truncates the file; the payload reaches it afterwards,
\* record by record when json.dump streams it, at once when the text was
\* assembled first; kind is the kind of JSON value written, ret where the
\* script goes on after the file is closed
OpenForWrite(name, kind, payload, stream, ret) ==
    /\ files' = [files EXCEPT ![name] = Blank]
    /\ wr' = [active |-> TRUE, name |-> name, kind |-> kind,
              payload |-> payload, stream |-> stream, ret |-> ret]

\* one write() on the open file, and the close after the last one
file_write ==
    /\ wr.active
    /\ LET cur == files[wr.name]
           k == Len(cur.items)
       IN  IF wr.stream /\ k < Len(wr.payload)
           THEN /\ files' = [files EXCEPT ![wr.name] =
                        Content("partial", SubSeq(wr.payload, 1, k + 1))]
                /\ UNCHANGED <<wr, pc>>
           ELSE /\ files' = [files EXCEPT ![wr.name] =
                        Content(wr.kind, wr.payload)]
                /\ wr' = NoWrite
                /\ pc' = wr.ret
    /\ UNCHANGED <<run, idx, out, score_ev, site, changed>>

\* a write() raises (OSError, interrupt): the script ends there
file_write_fails ==
    /\ wr.active
    /\ wr' = NoWrite
    /\ pc' = "failed"
    /\ UNCHANGED <<run, idx, out, files, score_ev, site, changed>>

----------------------------------------------------------------------------
(* run_swing.py *)

FEATS_SWING == <<"ret1", "ret3", "ret5", "ema10", "ema20", "ema200",
                 "ema_slope20", "ema_dist20", "rsi", "atr">>

\* len(base) < 80 skips the symbol
MIN_BARS_SWING == 80

SwapFirstTwo(s) == <<s[2], s[1]>> \o SubSeq(s, 3, Len(s))

\* the feature lists a model pack can declare
FeatLists ==
    { FEATS_SWING,
      SwapFirstTwo(FEATS_SWING),
      SubSeq(FEATS_SWING, 1, Len(FEATS_SWING) - 1),
      FEATS_SWING \o <<"orb_high_dist">>,
      <<"ret1", "ret3", "ret5", "ema_fast", "ema20", "ema200",
        "ema_slope20", "ema_dist20", "rsi", "atr">>,
      <<>> }

\* what joblib.load can return: no file (None), an object that is no dict,
\* or a dict; model is whether pack.get("model") is truthy, feats is
\* pack.get("feats", [])
NoModel == [kind |-> "none", model |-> FALSE, feats |-> <<>>]

ModelPacks ==
    {NoModel,
     [kind |-> "other", model |-> TRUE, feats |-> FEATS_SWING]}
    \cup [kind : {"dict"}, model : {TRUE}, feats : FeatLists]
    \cup {[kind |-> "dict", model |-> FALSE, feats |-> FEATS_SWING]}

\* the values of config.yaml the swing run reads; its defaults are
\* swing_min_prob 0.65, swing_min_rr 1.4 and both filters on
SwingConfigs ==
    [min_prob : {4000, 6500}, min_rr10 : {10, 14},
     trend_confirm : BOOLEAN, retest_required : BOOLEAN]

DefaultConfig ==
    [min_prob |-> 6500, min_rr10 |-> 14, trend_confirm |-> TRUE,
     retest_required |-> TRUE]

RelaxedConfig ==
    [min_prob |-> 4000, min_rr10 |-> 10, trend_confirm |-> TRUE,
     retest_required |-> TRUE]

\* the enriched daily frame, by what main() and passes_filters() read:
\* n = len(base); close, ema20, ema200, rsi of the last row; low3 =
\* base["low"].tail(3).min(); prevNear = whether one of the four rows before
\* the last has |close - ema20| / ema20 <= 0.01
DummyBase ==
    [n |-> 0, close |-> PriceBase, ema20 |-> PriceBase, ema200 |-> PriceBase,
     low3 |-> PriceBase, rsi |-> 55, prevNear |-> FALSE]

SwingBases ==
    {[DummyBase EXCEPT !.n = MIN_BARS_SWING - 1]} \cup
    {b \in [n : {MIN_BARS_SWING}, close : GridPrices, ema20 : Prices,
            ema200 : {FarPrice, PriceBase + TickStep}, low3 : Prices,
            rsi : {44, 45, 55, 70, 71}, prevNear : BOOLEAN] :
        b.low3 <= b.close}

\* enrich(fetch1d(sym)): yf.download raises, the frame is empty, a price
\* column is missing (_get_series raises KeyError), or the enriched frame
SwingFetches ==
    {[kind |-> k, base |-> DummyBase] : k \in {"raise", "empty", "nocol"}}
    \cup {[kind |-> "ok", base |-> b] : b \in SwingBases}

\* model.predict_proba: raises, or a probability
NoPredict == [raises |-> FALSE, p |-> 0]

PredictOutcomes ==
    {[raises |-> TRUE, p |-> 0]} \cup
    {[raises |-> FALSE, p |-> x] : x \in {3000, 6496, 9000}}

IsCrypto(sym) == sym \in {"BTC-USD", "ETH-USD"}

\* avg_vol_ok: True for "-USD" tickers; volOk is what the volume check gives
avg_vol_ok(sym, volOk) == IsCrypto(sym) \/ volOk

heur_proba(b) ==
    IF b.close > b.ema20 /\ b.ema20 > b.ema200 /\ 45 <= b.rsi /\ b.rsi <= 70
    THEN 6500 ELSE 4000

\* a comparison of the names alone, blind to order and repetition
FeatsMatchAsSet(feats) == Range(feats) = Range(FEATS_SWING)

\* feats == FEATS_SWING: equality of two Python lists, names and order
FeatsMatch(feats) == feats = FEATS_SWING

\* whether main() calls model.predict_proba
InvokesModel(pack) ==
    /\ pack.kind = "dict"
    /\ pack.model
    /\ pack.feats # <<>>
    /\ FeatsMatch(pack.feats)

\* the probability main() goes on with
SwingProba(pack, b, pr) ==
    IF InvokesModel(pack) /\ ~pr.raises THEN pr.p ELSE heur_proba(b)

passes_filters(b, c) ==
    LET near == Abs(b.close - b.ema20) * 100 <= b.ema20
    IN  /\ ~(c.trend_confirm /\ ~(b.close > b.ema20 /\ b.ema20 > b.ema200))
        /\ ~(c.retest_required /\ ~(near \/ b.prevNear))

SwingStop(b) == Min2(b.ema20, b.low3)

SwingRisk(b) == b.close - SwingStop(b)

\* the reward of a first target placed at twice the risk
SwingRewardDouble(b) == Round4(b.close + 2 * SwingRisk(b)) - b.close

\* t1 - price, the numerator of rr
SwingReward(b) == Round4(b.close + SwingRisk(b)) - b.close

SwingRow(sym, proba, b) ==
    LET price == b.close
        stop == SwingStop(b)
        risk == price - stop
    IN  [ticker |-> sym, timeframe |-> "1d-swing",
         strategy |-> "EMA trend + retest", prob |-> Round3(proba),
         entry |-> Round4(price), stop |-> Round4(stop),
         targets |-> <<Round4(price + risk), Round4(price + 2 * risk)>>,
         trail |-> "ema20_atr", asof |-> "asof"]

\* the rows one pass of the loop body appends: none or one
SwingRows(sym, c, proba, b) ==
    LET risk == SwingRisk(b)
    IN  IF proba < c.min_prob THEN <<>>
        ELSE IF ~passes_filters(b, c) THEN <<>>
        ELSE IF risk <= 0 THEN <<>>
        ELSE IF SwingReward(b) * 10 < c.min_rr10 * risk THEN <<>>
        ELSE <<SwingRow(sym, proba, b)>>

\* what the last pass of the loop did, in the values of its local variables:
\* scored (it reached the scoring), whether predict_proba was called, the
\* probability main() went on with, the two facts about the last row the
\* heuristic reads (up: close > ema20 > ema200; mid: 45 <= rsi <= 70);
\* emitted (it appended a row), and the risk and the first target's reward
\* of that row before rounding
NoScore ==
    [scored |-> FALSE, invoked |-> FALSE, proba |-> 0, up |-> FALSE,
     mid |-> FALSE, emitted |-> FALSE, risk |-> 0, reward |-> 0]

\* one pass of the loop of main() over SYMS
run_swing_symbol ==
    /\ prog = "run_swing"
    /\ pc = "loop"
    /\ idx <= Len(syms)
    /\ LET sym == syms[idx]
       IN  \E volOk \in BOOLEAN :
           \E fx \in (IF avg_vol_ok(sym, volOk) THEN SwingFetches
                      ELSE {[kind |-> "empty", base |-> DummyBase]}) :
           \E pr \in (IF fx.kind = "ok" /\ fx.base.n >= MIN_BARS_SWING
                         /\ InvokesModel(model_pack)
                      THEN PredictOutcomes ELSE {NoPredict}) :
             IF ~avg_vol_ok(sym, volOk)
             THEN /\ idx' = idx + 1
                  /\ score_ev' = NoScore
                  /\ UNCHANGED <<out, pc>>
             ELSE IF fx.kind \in {"raise", "nocol"}
             THEN \* the exception leaves main()
                  /\ pc' = "raised"
                  /\ score_ev' = NoScore
                  /\ UNCHANGED <<out, idx>>
             ELSE IF fx.kind = "empty" \/ fx.base.n < MIN_BARS_SWING
             THEN /\ idx' = idx + 1
                  /\ score_ev' = NoScore
                  /\ UNCHANGED <<out, pc>>
             ELSE LET proba == SwingProba(model_pack, fx.base, pr)
                      rows == SwingRows(sym, cfg, proba, fx.base)
                  IN  /\ score_ev' =
                            [scored |-> TRUE,
                             invoked |-> InvokesModel(model_pack),
                             proba |-> proba,
                             up |-> fx.base.close > fx.base.ema20
                                    /\ fx.base.ema20 > fx.base.ema200,
                             mid |-> 45 <= fx.base.rsi /\ fx.base.rsi <= 70,
                             emitted |-> rows # <<>>,
                             risk |-> IF rows # <<>> THEN SwingRisk(fx.base)
                                      ELSE 0,
                             reward |-> IF rows # <<>>
                                        THEN SwingReward(fx.base) ELSE 0]
                      /\ out' = out \o rows
                      /\ idx' = idx + 1
                      /\ UNCHANGED pc
    /\ UNCHANGED <<run, files, wr, site, changed>>

\* pd.Series(out).to_json(path): the text is assembled, then the file is
\* opened for writing
run_swing_to_json ==
    /\ prog = "run_swing"
    /\ pc = "loop"
    /\ idx > Len(syms)
    /\ OpenForWrite("signals_swing.json", "list", out, FALSE, "done")
    /\ pc' = "write"
    /\ UNCHANGED <<run, idx, out, score_ev, site, changed>>

\* a feed left by an earlier run
OldSwingRow ==
    [ticker |-> "SPY", timeframe |-> "1d-swing",
     strategy |-> "EMA trend + retest", prob |-> 7000,
     entry |-> PriceBase, stop |-> FarPrice,
     targets |-> <<PriceBase + FarGap, PriceBase + 2 * FarGap>>,
     trail |-> "ema20_atr", asof |-> "asof"]

NoFiles == [f \in FeedNames |-> Missing]

InitSwing ==
    /\ prog = "run_swing"
    /\ syms \in SymbolOrders
    /\ \/ cfg \in SwingConfigs /\ model_pack = NoModel
       \/ cfg = RelaxedConfig /\ model_pack \in ModelPacks
    /\ idx = 1
    /\ out = <<>>
    /\ pc = "loop"
    /\ files = [NoFiles EXCEPT !["signals_swing.json"] =
                    Content("list", <<OldSwingRow>>)]
    /\ before = files
    /\ score_ev = NoScore
    /\ wr = NoWrite
    /\ site = NoFiles
    /\ changed = <<>>
    /\ raw = <<>>

NextSwing ==
    \/ run_swing_symbol
    \/ run_swing_to_json
    \/ file_write
    \/ file_write_fails

SpecSwing == InitSwing /\ [][NextSwing]_vars

----------------------------------------------------------------------------
(* generate_signals.py *)

\* rows[:25]
TRIM_TOP == 25

\* blend_score computes the momentum from 6 rows on, ema_confluence the EMA
\* alignment from 50 rows on, orb_score the opening range from 4 rows on
MIN_ROWS_MOM == 6

MIN_ROWS_EMA == 50

MIN_ROWS_ORB == 4

\* a flattened frame (the result of _flatten), by what the code reads from it:
\* empty; n = len(df); hl = whether it has the "high" and "low" columns;
\* close = close.iloc[-1]; close5 = close.iloc[-5]; e10, e20, e200 = the last
\* values of ema(close, 10 / 20 / 200); low5 = low.tail(5).min(); high5 =
\* high.tail(5).max(); high2 = high.iloc[:2].max(); low2 = low.iloc[:2].min()
EmptyFrame ==
    [empty |-> TRUE, n |-> 0, hl |-> TRUE, close |-> PriceBase,
     close5 |-> PriceBase, e10 |-> PriceBase, e20 |-> PriceBase,
     e200 |-> PriceBase, low5 |-> PriceBase, high5 |-> PriceBase,
     high2 |-> PriceBase, low2 |-> PriceBase]

HighPrice == PriceBase + FarGap

\* the part of a frame make_entry_stop_targets reads; the lows of a bar
\* series are at or below its last close, the highs at or above it
PlanFrames(n) ==
    {f \in {[EmptyFrame EXCEPT !.empty = FALSE, !.n = n, !.close = c,
                               !.e20 = e, !.low5 = lo, !.high5 = hi] :
               c \in GridPrices, e \in Prices, lo \in Prices,
               hi \in GridPrices \cup {HighPrice}} :
        f.low5 <= f.close /\ f.close <= f.high5}

\* daily frames: too short for the momentum, long enough for it, long enough
\* for the EMA alignment too; and one frame without "high" and "low"
D1Frames ==
    {EmptyFrame}
    \cup {[EmptyFrame EXCEPT !.empty = FALSE, !.n = MIN_ROWS_EMA,
                             !.hl = FALSE]}
    \cup PlanFrames(MIN_ROWS_MOM - 1)
    \cup {[f EXCEPT !.close5 = c5] :
            f \in PlanFrames(MIN_ROWS_MOM), c5 \in GridPrices}
    \cup {[f EXCEPT !.close5 = c5, !.e10 = f.e20 + d10, !.e200 = f.e20 + d200] :
            f \in PlanFrames(MIN_ROWS_EMA), c5 \in GridPrices,
            d10 \in {-1, 1}, d200 \in {-2, 2}}

\* 15-minute frames; when the daily frame is empty the plan is built from
\* the 15-minute frame, otherwise only orb_score reads it
M15Frames(d1) ==
    {EmptyFrame}
    \cup (IF d1.empty
          THEN PlanFrames(MIN_ROWS_ORB)
               \cup {[EmptyFrame EXCEPT !.empty = FALSE, !.n = MIN_ROWS_ORB,
                                        !.hl = FALSE]}
          ELSE {[EmptyFrame EXCEPT !.empty = FALSE, !.n = MIN_ROWS_ORB - 1],
                [EmptyFrame EXCEPT !.empty = FALSE, !.n = MIN_ROWS_ORB,
                                   !.hl = FALSE]}
               \cup {f \in {[EmptyFrame EXCEPT !.empty = FALSE,
                           !.n = MIN_ROWS_ORB, !.close = c, !.high2 = h,
                           !.low2 = l] :
                             c \in GridPrices, h \in GridPrices,
                             l \in GridPrices} :
                       f.low2 <= f.high2})

\* orb_score, in units of 0.7: 1, -1 or 0
orb_score(df15) ==
    IF df15.empty \/ df15.n < MIN_ROWS_ORB THEN 0
    ELSE IF df15.close > df15.high2 THEN 1
    ELSE IF df15.close < df15.low2 THEN -1
    ELSE 0

\* ema_confluence, in units of 0.6: 1 (bull), -1 (bear) or 0
ema_confluence(df) ==
    IF df.empty \/ df.n < MIN_ROWS_EMA THEN 0
    ELSE IF df.close > df.e10 /\ df.e10 > df.e20 /\ df.e20 > df.e200 THEN 1
    ELSE IF df.close < df.e10 /\ df.e10 < df.e20 /\ df.e20 < df.e200 THEN -1
    ELSE 0

\* blend_score as the exact fraction num/den of 1e-4 units:
\* 0.5 * (close/close5 - 1) + 0.3 * (0.7 * orb) + 0.2 * (0.6 * ema)
blend_score(d1, m15) ==
    IF d1.empty THEN [num |-> 0, den |-> 1]
    ELSE LET intraday == IF ~m15.empty THEN orb_score(m15) ELSE 0
             ema_s == ema_confluence(d1)
             fixed == 2100 * intraday + 1200 * ema_s
         IN  IF d1.n >= MIN_ROWS_MOM
             THEN [num |-> 5000 * (d1.close - d1.close5) + fixed * d1.close5,
                   den |-> d1.close5]
             ELSE [num |-> fixed, den |-> 1]

\* blend_score raises when orb_score reads a missing "high" column
BlendRaises(d1, m15) == ~d1.empty /\ ~m15.empty /\ m15.n >= MIN_ROWS_ORB /\ ~m15.hl

Direction(score) == IF score.num >= 0 THEN "LONG" ELSE "SHORT"

\* the local variable risk of make_entry_stop_targets
PlanRisk(df, direction) ==
    IF direction = "LONG" THEN df.close - Min2(df.e20, df.low5)
    ELSE Max2(df.e20, df.high5) - df.close

\* a plan builder that takes the level nearer to the close: max for a long
\* trade, min for a short one
make_entry_stop_targets_nearer(df, direction) ==
    LET price == df.close
    IN  IF direction = "LONG"
        THEN LET stop == Max2(df.e20, df.low5)
                 risk == price - stop
             IN  <<Round4(price), Round4(stop),
                   <<Round4(price + risk), Round4Frac(2 * price + 3 * risk, 2),
                     Round4(price + 2 * risk)>>>>
        ELSE LET stop == Min2(df.e20, df.high5)
                 risk == stop - price
             IN  <<Round4(price), Round4(stop),
                   <<Round4(price - risk), Round4Frac(2 * price - 3 * risk, 2),
                     Round4(price - 2 * risk)>>>>

\* make_entry_stop_targets: <<entry, stop, targets>> as written
make_entry_stop_targets(df, direction) ==
    LET price == df.close
    IN  IF direction = "LONG"
        THEN LET stop == Min2(df.e20, df.low5)
                 risk == price - stop
             IN  <<Round4(price), Round4(stop),
                   <<Round4(price + risk), Round4Frac(2 * price + 3 * risk, 2),
                     Round4(price + 2 * risk)>>>>
        ELSE LET stop == Max2(df.e20, df.high5)
                 risk == stop - price
             IN  <<Round4(price), Round4(stop),
                   <<Round4(price - risk), Round4Frac(2 * price - 3 * risk, 2),
                     Round4(price - 2 * risk)>>>>

GenRow(sym, d1, m15) ==
    LET score == blend_score(d1, m15)
        direction == Direction(score)
        use_df == IF ~d1.empty THEN d1 ELSE m15
        plan == make_entry_stop_targets(use_df, direction)
    IN  [symbol |-> sym, timeframe |-> "15m+1d blend", direction |-> direction,
         score |-> 10 * RoundHalfEven(score.num, 10 * score.den),
         entry |-> plan[1], stop |-> plan[2], targets |-> plan[3],
         note |-> "ORB/EMA blended with daily momentum", asof |-> "asof"]

\* list.sort(key=..., reverse=True) with keys[j] the key of rows[j]: a stable
\* sort, rows of equal key keep the order they had
SortDescByKeys(rows, keys) ==
    LET n == Len(rows)
        rank(j) == Cardinality({m \in 1..n : keys[m] > keys[j]})
                   + Cardinality({m \in 1..(j - 1) : keys[m] = keys[j]}) + 1
    IN  [i \in 1..n |-> rows[CHOOSE j \in 1..n : rank(j) = i]]

\* the sort key of main(): lambda r: abs(r["score"])
AbsScore(r) == Abs(r.score)

\* rows.sort(key=lambda r: abs(r["score"]), reverse=True)
SortRows(rows) ==
    SortDescByKeys(rows, [j \in DOMAIN rows |-> AbsScore(rows[j])])

Trim(rows) == SubSeq(rows, 1, Min2(Len(rows), TRIM_TOP))

\* one pass of the loop of main() over the symbols
generate_signals_symbol ==
    /\ prog = "generate_signals"
    /\ pc = "loop"
    /\ idx <= Len(syms)
    /\ \E d1 \in D1Frames :
       \E m15 \in M15Frames(d1) :
         IF d1.empty /\ m15.empty
         THEN /\ idx' = idx + 1
              /\ score_ev' = NoScore
              /\ UNCHANGED <<out, pc>>
         ELSE IF BlendRaises(d1, m15) \/ ~(IF ~d1.empty THEN d1 ELSE m15).hl
         THEN \* KeyError on a missing column leaves main()
              /\ pc' = "raised"
              /\ score_ev' = NoScore
              /\ UNCHANGED <<out, idx>>
         ELSE LET use_df == IF ~d1.empty THEN d1 ELSE m15
                  direction == Direction(blend_score(d1, m15))
                  risk == PlanRisk(use_df, direction)
              IN  /\ out' = Append(out, GenRow(syms[idx], d1, m15))
                  /\ score_ev' = [NoScore EXCEPT !.emitted = TRUE,
                                                 !.risk = risk,
                                                 !.reward =
                        Abs(make_entry_stop_targets(use_df, direction)[3][1]
                            - use_df.close)]
                  /\ idx' = idx + 1
                  /\ UNCHANGED pc
    /\ UNCHANGED <<run, files, wr, site, changed>>

\* after the loop: sort, trim, open signals.json for writing; json.dump then
\* streams the rows into the open file
generate_signals_dump ==
    /\ prog = "generate_signals"
    /\ pc = "loop"
    /\ idx > Len(syms)
    /\ out' = Trim(SortRows(out))
    /\ OpenForWrite("signals.json", "list", out', TRUE, "done")
    /\ pc' = "write"
    /\ UNCHANGED <<run, idx, score_ev, site, changed>>

OldGenRow ==
    [symbol |-> "SPY", timeframe |-> "15m+1d blend", direction |-> "LONG",
     score |-> 3300, entry |-> PriceBase, stop |-> FarPrice,
     targets |-> <<PriceBase + FarGap, PriceBase + FarGap + FarGap \div 2,
                   PriceBase + 2 * FarGap>>,
     note |-> "ORB/EMA blended with daily momentum", asof |-> "asof"]

InitGen ==
    /\ prog = "generate_signals"
    /\ syms \in SymbolOrders
    /\ cfg = DefaultConfig
    /\ model_pack = NoModel
    /\ idx = 1
    /\ out = <<>>
    /\ pc = "loop"
    /\ \E c \in {Missing, Content("list", <<OldGenRow>>)} :
         files = [NoFiles EXCEPT !["signals.json"] = c]
    /\ before = files
    /\ score_ev = NoScore
    /\ wr = NoWrite
    /\ site = NoFiles
    /\ changed = <<>>
    /\ raw = <<>>

NextGen ==
    \/ generate_signals_symbol
    \/ generate_signals_dump
    \/ file_write
    \/ file_write_fails

SpecGen == InitGen /\ [][NextGen]_vars

----------------------------------------------------------------------------
(* make_demo_feeds.py and normalize_and_copy.py *)

\* the longest list a feed file holds before these scripts run
MaxFileRows == 1

\* the demo rows; their prices are literals of the script, kept here in units
\* of 1e-2 (64123 in units of 1e-5 exceeds a 32-bit integer)
demo_intraday ==
    <<[ticker |-> "SPY", timeframe |-> "15m", strategy |-> "ORB+EMA retest",
       side |-> "LONG", prob |-> 6800, entry |-> 51234, stop |-> 50890,
       targets |-> <<51430, 51560, 51870>>, asof |-> "now"],
      [ticker |-> "BTC-USD", timeframe |-> "15m",
       strategy |-> "ORB+EMA retest", side |-> "SHORT", prob |-> 6100,
       entry |-> 6412300, stop |-> 6485000,
       targets |-> <<6350000, 6300000, 6220000>>, asof |-> "now"]>>

demo_swing ==
    <<[ticker |-> "AAPL", timeframe |-> "1d-swing",
       strategy |-> "EMA20 retest + trend", prob |-> 6300,
       entry |-> 22410, stop |-> 21870,
       targets |-> <<22950, 23290, 23630>>,
       trail |-> "ema20_atr", asof |-> "now"],
      [ticker |-> "ETH-USD", timeframe |-> "1d-swing",
       strategy |-> "EMA20 retest + trend", prob |-> 6600,
       entry |-> 271000, stop |-> 258000,
       targets |-> <<279000, 286000, 295000>>,
       trail |-> "ema20_atr", asof |-> "now"]>>

demo_options ==
    <<[symbol |-> "SPY", type |-> "CALL", strike |-> 51500,
       expiry |-> "2025-10-18", delta |-> 6200, spread |-> 300,
       note |-> "ATM call 2w - trend up", score |-> 7200],
      [symbol |-> "AAPL", type |-> "PUT", strike |-> 22000,
       expiry |-> "2025-10-18", delta |-> 5500, spread |-> 200,
       note |-> "EMA20 loss risk hedge", score |-> 6400]>>

demo_swing_plus_options ==
    <<[ticker |-> "AAPL", timeframe |-> "1d-swing", prob |-> 6300,
       entry |-> 22410, stop |-> 21870,
       targets |-> <<22950, 23290, 23630>>, opt_type |-> "PUT",
       opt_strike |-> 22000, opt_exp |-> "2025-10-18", opt_delta |-> 5500,
       opt_note |-> "EMA20 loss risk hedge"]>>

\* the four write_if_empty calls of the module body, in order
DemoCalls ==
    <<[name |-> "signals.json", data |-> demo_intraday],
      [name |-> "signals_swing.json", data |-> demo_swing],
      [name |-> "options.json", data |-> demo_options],
      [name |-> "swing_plus_options.json", data |-> demo_swing_plus_options]>>

\* json.loads of the file's text raises
Unparsable(cur) == cur.kind = "partial"

\* bool(json.loads(text or "[]")): a non-empty list or a non-empty object;
\* kind "object" is the empty object {}
Truthy(cur) ==
    \/ cur.kind = "list" /\ cur.items # <<>>
    \/ cur.kind = "wrapped"

\* a writer that overwrites the lists that hold rows
WritesIfNonEmpty(cur) == cur.kind = "missing" \/ Truthy(cur)

\* the condition of write_if_empty: the file is absent or parses to a
\* falsy value
WritesDemo(cur) == cur.kind = "missing" \/ ~Truthy(cur)

\* one write_if_empty call up to its open-for-write or its return False
make_demo_feeds_call ==
    /\ prog = "make_demo_feeds"
    /\ pc = "loop"
    /\ idx <= Len(DemoCalls)
    /\ LET c == DemoCalls[idx]
           cur == files[c.name]
       IN  IF cur.kind # "missing" /\ Unparsable(cur)
           THEN \* JSONDecodeError leaves the script
                /\ pc' = "failed"
                /\ UNCHANGED <<idx, files, wr, changed>>
           ELSE IF WritesDemo(cur)
           THEN /\ OpenForWrite(c.name, "list", c.data, FALSE, "wrote")
                /\ pc' = "write"
                /\ UNCHANGED <<idx, changed>>
           ELSE /\ changed' = Append(changed, <<c.name, FALSE>>)
                /\ idx' = idx + 1
                /\ UNCHANGED <<pc, files, wr>>
    /\ UNCHANGED <<run, out, score_ev, site>>

\* write_if_empty returns True after path.write_text
make_demo_feeds_wrote ==
    /\ prog = "make_demo_feeds"
    /\ pc = "wrote"
    /\ changed' = Append(changed, <<DemoCalls[idx].name, TRUE>>)
    /\ idx' = idx + 1
    /\ pc' = "loop"
    /\ UNCHANGED <<run, out, files, score_ev, wr, site>>

\* the final print
make_demo_feeds_print ==
    /\ prog = "make_demo_feeds"
    /\ pc = "loop"
    /\ idx > Len(DemoCalls)
    /\ pc' = "done"
    /\ UNCHANGED <<run, idx, out, files, score_ev, wr, site, changed>>

\* the two normalize_and_copy calls of the module body, in order
NormNames == <<"signals.json", "signals_swing.json">>

\* normalize_and_copy up to the open of src for writing: skip a missing
\* file, json.load, unwrap {"signals": [...]}
normalize_and_copy ==
    /\ prog = "normalize_and_copy"
    /\ pc = "loop"
    /\ idx <= Len(NormNames)
    /\ LET name == NormNames[idx]
           cur == files[name]
       IN  IF cur.kind = "missing"
           THEN /\ idx' = idx + 1
                /\ UNCHANGED <<pc, files, wr>>
           ELSE IF cur.kind = "blank" \/ Unparsable(cur)
           THEN \* JSONDecodeError leaves the script
                /\ pc' = "failed"
                /\ UNCHANGED <<idx, files, wr>>
           ELSE /\ OpenForWrite(name,
                                IF cur.kind = "wrapped" THEN "list"
                                ELSE cur.kind,
                                cur.items, TRUE, "copy")
                /\ pc' = "write"
                /\ UNCHANGED idx
    /\ UNCHANGED <<run, out, score_ev, site, changed>>

\* shutil.copy2(src, dst)
normalize_and_copy_copy2 ==
    /\ prog = "normalize_and_copy"
    /\ pc = "copy"
    /\ site' = [site EXCEPT ![NormNames[idx]] = files[NormNames[idx]]]
    /\ idx' = idx + 1
    /\ pc' = "loop"
    /\ UNCHANGED <<run, out, files, score_ev, wr, changed>>

\* print("done.")
normalize_and_copy_done ==
    /\ prog = "normalize_and_copy"
    /\ pc = "loop"
    /\ idx > Len(NormNames)
    /\ pc' = "done"
    /\ UNCHANGED <<run, idx, out, files, score_ev, wr, site, changed>>

\* a row a generator wrote to the feed earlier
RealRow(name) == IF name = "signals.json" THEN OldGenRow ELSE OldSwingRow

RowLists(name) == {[i \in 1..k |-> RealRow(name)] : k \in 0..MaxFileRows}

\* what a feed file can hold when one of the two scripts starts
FileContents(name) ==
    {Missing, Blank, Content("object", <<>>)}
    \cup {Content(k, rows) : k \in {"list", "wrapped"}, rows \in RowLists(name)}
    \cup {Content("partial", rows) : rows \in RowLists(name) \ {<<>>}}

InitFeeds ==
    /\ prog \in {"make_demo_feeds", "normalize_and_copy"}
    /\ syms = <<>>
    /\ cfg = DefaultConfig
    /\ model_pack = NoModel
    /\ idx = 1
    /\ out = <<>>
    /\ pc = "loop"
    /\ files \in [FeedNames -> UNION {FileContents(n) : n \in FeedNames}]
    /\ \A n \in FeedNames : files[n] \in FileContents(n)
    /\ prog = "normalize_and_copy" =>
         \A n \in FeedNames \ Range(NormNames) : files[n] = Missing
    /\ before = files
    /\ score_ev = NoScore
    /\ wr = NoWrite
    /\ site = NoFiles
    /\ changed = <<>>
    /\ raw = <<>>

NextFeeds ==
    \/ make_demo_feeds_call
    \/ make_demo_feeds_wrote
    \/ make_demo_feeds_print
    \/ normalize_and_copy
    \/ normalize_and_copy_copy2
    \/ normalize_and_copy_done
    \/ file_write
    \/ file_write_fails

SpecFeeds == InitFeeds /\ [][NextFeeds]_vars

----------------------------------------------------------------------------
(* Labels: ai/featurize.py label_forward_returns, train_ai.py              *)
(* label_forward_up, and the training tables built from them               *)

\* longest close series and largest configured horizon of the label runs
MaxBars == 4
MaxHorizon == 2

\* horizon_bars of label_forward_returns when the caller passes none, as
\* train_from_df does
HORIZON_DEFAULT == 26

\* NaN, and a number given as the fraction num/den
NaN == [nan |-> TRUE, num |-> 0, den |-> 1]

Num(n, d) == [nan |-> FALSE, num |-> n, den |-> d]

\* close series: 1 to MaxBars closes from the grid
CloseSeries == UNION {[1..n -> GridPrices] : n \in 1..MaxBars}

\* c.pct_change(h) at bar t: close[t] / close[t-h] - 1, NaN on the first h bars
pct_change(close, h, t) ==
    IF t - h >= 1 THEN Num(close[t] - close[t - h], close[t - h]) ELSE NaN

\* s.shift(-h) at bar t: the value of bar t + h, NaN on the last h bars
ForwardReturn(close, h, t) ==
    IF t + h <= Len(close) THEN pct_change(close, h, t + h) ELSE NaN

\* (fwd > 0).astype(int): a comparison with NaN is False, and False is 0
GreaterThanZero(x) == ~x.nan /\ x.num > 0

label_forward_up(close, h) ==
    [t \in 1..Len(close) |->
        IF GreaterThanZero(ForwardReturn(close, h, t)) THEN 1 ELSE 0]

\* feats["label"] = ...: the table with its label column
LabelledRows(close, h) ==
    [t \in 1..Len(close) |->
        [bar |-> t, close |-> close[t], label |-> label_forward_up(close, h)[t]]]

\* DataFrame.dropna(): the rows without a NaN; a label is 0 or 1, never NaN
dropna(rows) == SelectSeq(rows, LAMBDA r : r.label \in {0, 1})

\* feats["label"] = label_forward_up(feats, HORIZON), or
\* feats['label'] = label_forward_returns(feats)
train_label ==
    /\ prog \in {"train_ai", "train_from_df"}
    /\ pc = "features"
    /\ out' = LabelledRows(raw.close, raw.horizon)
    /\ pc' = "labelled"
    /\ UNCHANGED <<run, idx, files, score_ev, wr, site, changed>>

\* pd.concat(frames).dropna(), or feats.dropna(): the training data
train_dropna ==
    /\ prog \in {"train_ai", "train_from_df"}
    /\ pc = "labelled"
    /\ out' = dropna(out)
    /\ pc' = "data"
    /\ UNCHANGED <<run, idx, files, score_ev, wr, site, changed>>

InitLabel ==
    /\ prog \in {"train_ai", "train_from_df"}
    /\ syms = <<>>
    /\ cfg = DefaultConfig
    /\ model_pack = NoModel
    /\ idx = 1
    /\ out = <<>>
    /\ pc = "features"
    /\ files = NoFiles
    /\ before = files
    /\ score_ev = NoScore
    /\ wr = NoWrite
    /\ site = NoFiles
    /\ changed = <<>>
    /\ \E c \in CloseSeries :
       \E h \in (IF prog = "train_ai" THEN 1..MaxHorizon
                 ELSE {HORIZON_DEFAULT}) :
         raw = [close |-> c, horizon |-> h]

NextLabel ==
    \/ train_label
    \/ train_dropna

SpecLabel == InitLabel /\ [][NextLabel]_vars

----------------------------------------------------------------------------
(* Opening range and retest: strategies/orb_ema.py opening_range and        *)
(* break_and_retest, the ORB columns of ai/featurize.py make_features, and  *)
(* the opening range of generate_signals.py orb_score                       *)

\* longest intraday bar series, number of sessions it can span, and largest
\* configured opening-range bar count
MaxOrbSeries == 3
MaxSessions == 2
MaxOrbBars == 2

\* the retest tolerance in units of 1e-4 of the level: 0.25 percent, the
\* 0.0025 of make_features and the retest_tol_pct default of StrategyParams
RETEST_TOL == 25

\* one 15-minute bar: d is the calendar date of its timestamp
IntradayBars ==
    {b \in [d : 1..MaxSessions, high : GridPrices, low : Prices,
            close : GridPrices] :
        b.low <= b.close /\ b.close <= b.high}

\* series of n bars in timestamp order: the first bar opens session 1, a
\* later bar stays in the session of the bar before it or opens the next one
SeriesOfLen(n) ==
    {s \in [1..n -> IntradayBars] :
        /\ s[1].d = 1
        /\ \A t \in 2..n : s[t].d \in {s[t - 1].d, s[t - 1].d + 1}}

IntradaySeries == UNION {SeriesOfLen(n) : n \in 1..MaxOrbSeries}

\* the shortest frames orb_score takes an opening range from
OrbScoreFrames == SeriesOfLen(MIN_ROWS_ORB)

\* the position of the first bar of the session of bar t: groupby(date)
\* .head(1) and groupby(date).transform('first')
FirstOfSession(bars, t) ==
    CHOOSE s \in 1..t :
        /\ bars[s].d = bars[t].d
        /\ \A u \in 1..(s - 1) : bars[u].d # bars[t].d

\* opening_range(df15, orb_min): one row per session, the high and low of
\* its first bar; orb_min is not read
opening_range(bars, orb_min) ==
    LET firsts == SelectSeq([t \in 1..Len(bars) |->
                                [t |-> t, first |-> FirstOfSession(bars, t)]],
                            LAMBDA x : x.t = x.first)
    IN  [k \in 1..Len(firsts) |->
            [d |-> bars[firsts[k].t].d, bar |-> firsts[k].t,
             orb_high |-> bars[firsts[k].t].high,
             orb_low |-> bars[firsts[k].t].low]]

\* make_features: d.groupby('_d')['high'].transform('first') and the same
\* for 'low', at bar t
FeatureOrbHigh(bars, t) == bars[FirstOfSession(bars, t)].high

FeatureOrbLow(bars, t) == bars[FirstOfSession(bars, t)].low

\* low within the tolerance band around the level:
\* lvl * (1 - tol) <= low <= lvl * (1 + tol)
WithinTolerance(low, lvl) ==
    /\ low * 10000 <= lvl * (10000 + RETEST_TOL)
    /\ low * 10000 >= lvl * (10000 - RETEST_TOL)

\* make_features: brk_orb_high and rt_orb_high at bar t
brk_orb_high(bars, t) == bars[t].close > FeatureOrbHigh(bars, t)

rt_orb_high(bars, t) == WithinTolerance(bars[t].low, FeatureOrbHigh(bars, t))

\* break_and_retest(df15, tol, level_col) at bar t, lvl the level column:
\* broke_up.shift(1).fillna(False) & retest; shift(1) takes the bar before
\* t in the frame, whatever its session
break_and_retest(bars, lvl, t) ==
    /\ t > 1
    /\ bars[t - 1].close > lvl[t - 1]
    /\ WithinTolerance(bars[t].low, lvl[t])

\* orb_score: the high and low of df15.iloc[:2], the first two rows of the
\* whole frame
First30High(bars) ==
    IF Len(bars) >= 2 THEN Max2(bars[1].high, bars[2].high) ELSE bars[1].high

First30Low(bars) ==
    IF Len(bars) >= 2 THEN Min2(bars[1].low, bars[2].low) ELSE bars[1].low

\* the ORB columns make_features attaches to every bar
orb_make_features ==
    /\ prog = "make_features"
    /\ pc = "call"
    /\ out' = [t \in 1..Len(raw.bars) |->
                 [bar |-> t, d |-> raw.bars[t].d,
                  orb_high |-> FeatureOrbHigh(raw.bars, t),
                  orb_low |-> FeatureOrbLow(raw.bars, t),
                  brk |-> brk_orb_high(raw.bars, t),
                  retest |-> rt_orb_high(raw.bars, t)]]
    /\ pc' = "returned"
    /\ UNCHANGED <<run, idx, files, score_ev, wr, site, changed>>

\* opening_range(df15, orb_min)
orb_opening_range ==
    /\ prog = "opening_range"
    /\ pc = "call"
    /\ out' = opening_range(raw.bars, raw.orb_bars)
    /\ pc' = "returned"
    /\ UNCHANGED <<run, idx, files, score_ev, wr, site, changed>>

\* break_and_retest on a frame whose level column holds the opening-range
\* high of each bar's session
orb_break_and_retest ==
    /\ prog = "break_and_retest"
    /\ pc = "call"
    /\ LET lvl == [t \in 1..Len(raw.bars) |-> FeatureOrbHigh(raw.bars, t)]
       IN  out' = [t \in 1..Len(raw.bars) |->
                     [bar |-> t, d |-> raw.bars[t].d, orb_high |-> lvl[t],
                      brk |-> raw.bars[t].close > lvl[t],
                      retest |-> break_and_retest(raw.bars, lvl, t)]]
    /\ pc' = "returned"
    /\ UNCHANGED <<run, idx, files, score_ev, wr, site, changed>>

\* the opening range orb_score compares the last close with
orb_score_range ==
    /\ prog = "orb_score"
    /\ pc = "call"
    /\ Len(raw.bars) >= MIN_ROWS_ORB
    /\ out' = <<[bar |-> Len(raw.bars), d |-> raw.bars[Len(raw.bars)].d,
                 orb_high |-> First30High(raw.bars),
                 orb_low |-> First30Low(raw.bars)]>>
    /\ pc' = "returned"
    /\ UNCHANGED <<run, idx, files, score_ev, wr, site, changed>>

InitOrb ==
    /\ prog \in {"make_features", "opening_range", "break_and_retest",
                 "orb_score"}
    /\ syms = <<>>
    /\ cfg = DefaultConfig
    /\ model_pack = NoModel
    /\ idx = 1
    /\ out = <<>>
    /\ pc = "call"
    /\ files = NoFiles
    /\ before = files
    /\ score_ev = NoScore
    /\ wr = NoWrite
    /\ site = NoFiles
    /\ changed = <<>>
    /\ \E s \in (IF prog = "orb_score" THEN OrbScoreFrames
                 ELSE IntradaySeries) :
       \E n \in 1..MaxOrbBars :
         raw = [bars |-> s, orb_bars |-> n]

NextOrb ==
    \/ orb_make_features
    \/ orb_opening_range
    \/ orb_break_and_retest
    \/ orb_score_range

SpecOrb == InitOrb /\ [][NextOrb]_vars

----------------------------------------------------------------------------
(* Training and inference: the artifact train_ai.py main and ai/train.py    *)
(* train_from_df write, and run_swing.py reading it                         *)

\* FEATS_SWING of train_ai.py with two names exchanged
TrainerFeatsReordered ==
    <<"ret3", "ret1", "ret5", "ema10", "ema20", "ema200",
      "ema_slope20", "ema_dist20", "rsi", "atr">>

\* FEATS_SWING of train_ai.py
TRAIN_FEATS_SWING ==
    <<"ret1", "ret3", "ret5", "ema10", "ema20", "ema200",
      "ema_slope20", "ema_dist20", "rsi", "atr">>

\* FEATS of ai/featurize.py, which train_from_df stores
FEATS ==
    <<"ret1", "ret3", "ret5", "ema10", "ema20", "ema200",
      "ema_slope20", "ema_dist20", "rsi", "atr",
      "orb_high_dist", "orb_low_dist", "brk_orb_high", "rt_orb_high">>

\* the "feats" entry of the dict each trainer hands to joblib.dump
DumpedFeats(trainer) ==
    IF trainer = "train_ai" THEN TRAIN_FEATS_SWING ELSE FEATS

\* joblib.dump({"model": model, "feats": ..., "auc": ...}, path) with path
\* models/model_swing.pkl
train_joblib_dump ==
    /\ prog \in {"train_ai", "train_from_df"}
    /\ pc = "fit"
    /\ model_pack' = [kind |-> "dict", model |-> TRUE,
                      feats |-> DumpedFeats(prog)]
    /\ pc' = "dumped"
    /\ UNCHANGED <<prog, syms, cfg, before, raw, idx, out, files, score_ev,
                   wr, site, changed>>

\* the trainer raises before the dump (train_ai.main: "No data to train
\* on."): the artifact on disk stays as it was
train_raises ==
    /\ prog \in {"train_ai", "train_from_df"}
    /\ pc = "fit"
    /\ pc' = "raised"
    /\ UNCHANGED <<run, idx, out, files, score_ev, wr, site, changed>>

\* a later run of run_swing.py: main() starts with load_daily_model()
load_daily_model ==
    /\ prog \in {"train_ai", "train_from_df"}
    /\ pc = "dumped"
    /\ prog' = "run_swing"
    /\ pc' = "loop"
    /\ UNCHANGED <<syms, cfg, model_pack, before, raw, idx, out, files,
                   score_ev, wr, site, changed>>

InitTrain ==
    /\ prog \in {"train_ai", "train_from_df"}
    /\ syms \in SymbolOrders
    /\ cfg = RelaxedConfig
    /\ model_pack = NoModel
    /\ idx = 1
    /\ out = <<>>
    /\ pc = "fit"
    /\ files = NoFiles
    /\ before = files
    /\ score_ev = NoScore
    /\ wr = NoWrite
    /\ site = NoFiles
    /\ changed = <<>>
    /\ raw = [trainer |-> prog]

NextTrain ==
    \/ train_joblib_dump
    \/ train_raises
    \/ load_daily_model
    \/ run_swing_symbol
    \/ run_swing_to_json
    \/ file_write
    \/ file_write_fails

SpecTrain == InitTrain /\ [][NextTrain]_vars

----------------------------------------------------------------------------
(* Trade plans: the stop of generate_signals.py make_entry_stop_targets, of *)
(* run_swing.py main and of run_swing.backup.py make_tradeplan              *)

\* round(x, 2) of a price x given in units of 1e-5, and of a price given as
\* a fraction of such units
Round2(x) == 1000 * RoundHalfEven(x, 1000)

Round2Frac(num, den) == 1000 * RoundHalfEven(num, 1000 * den)

\* make_tradeplan(last_close, df): <<stop, targets>> as returned; the stop
\* before rounding is min(ema20, recent_low), or 0.97 * last_close when that
\* is not below last_close
make_tradeplan(last_close, df) ==
    LET lower == Min2(df.e20, df.low5)
        num == IF lower >= last_close THEN 97 * last_close ELSE 100 * lower
        risk == 100 * last_close - num
    IN  <<Round2Frac(num, 100),
          <<Round2Frac(100 * last_close + risk, 100),
            Round2Frac(200 * last_close + 3 * risk, 200),
            Round2Frac(100 * last_close + 2 * risk, 100)>>>>

\* make_entry_stop_targets(use_df, direction)
plan_make_entry_stop_targets ==
    /\ prog = "make_entry_stop_targets"
    /\ pc = "call"
    /\ LET plan == make_entry_stop_targets(raw.df, raw.direction)
       IN  out' = <<[entry |-> plan[1], stop |-> plan[2],
                     targets |-> plan[3]]>>
    /\ pc' = "returned"
    /\ UNCHANGED <<run, idx, files, score_ev, wr, site, changed>>

\* run_swing.main: price, stop, risk and the row's rounded entry and stop
plan_run_swing ==
    /\ prog = "run_swing_plan"
    /\ pc = "call"
    /\ out' = <<[entry |-> Round4(raw.df.close),
                 stop |-> Round4(SwingStop(raw.df)),
                 targets |-> <<>>]>>
    /\ pc' = "returned"
    /\ UNCHANGED <<run, idx, files, score_ev, wr, site, changed>>

\* make_tradeplan(last_close, df) and the equity row's round(last_close, 2)
plan_make_tradeplan ==
    /\ prog = "make_tradeplan"
    /\ pc = "call"
    /\ LET plan == make_tradeplan(raw.df.close, raw.df)
       IN  out' = <<[entry |-> Round2(raw.df.close), stop |-> plan[1],
                     targets |-> plan[2]]>>
    /\ pc' = "returned"
    /\ UNCHANGED <<run, idx, files, score_ev, wr, site, changed>>

InitPlan ==
    /\ prog \in {"make_entry_stop_targets", "run_swing_plan",
                 "make_tradeplan"}
    /\ syms = <<>>
    /\ cfg = DefaultConfig
    /\ model_pack = NoModel
    /\ idx = 1
    /\ out = <<>>
    /\ pc = "call"
    /\ files = NoFiles
    /\ before = files
    /\ score_ev = NoScore
    /\ wr = NoWrite
    /\ site = NoFiles
    /\ changed = <<>>
    /\ \/ /\ prog = "make_entry_stop_targets"
          /\ \E f \in PlanFrames(MIN_ROWS_MOM - 1) : \E d \in {"LONG", "SHORT"} :
               raw = [df |-> f, direction |-> d]
       \/ /\ prog = "run_swing_plan"
          /\ \E b \in SwingBases :
               /\ b.n >= MIN_BARS_SWING
               /\ raw = [df |-> b, direction |-> "LONG"]
       \/ /\ prog = "make_tradeplan"
          /\ \E f \in PlanFrames(MIN_ROWS_MOM - 1) :
               raw = [df |-> f, direction |-> "LONG"]

NextPlan ==
    \/ plan_make_entry_stop_targets
    \/ plan_run_swing
    \/ plan_make_tradeplan

SpecPlan == InitPlan /\ [][NextPlan]_vars

----------------------------------------------------------------------------
(* Bar normalization: generate_signals.py _flatten, generate_signals.backup *)
(* .py normalize_ohlcv and common.py download                               *)

\* most rows of a raw frame, and latest timestamp a row can carry
MaxRawRows == 2
MaxStamp == 2

PriceColumns == {"open", "high", "low", "close"}

\* a value no number was read from (NaN after pd.to_numeric(errors="coerce"))
NotANumber == 0

\* one raw row: its timestamp and its values; open is carried along without
\* being read by any normalizer, so it is not represented
RawRows ==
    [ts : 1..MaxStamp, high : GridPrices, low : GridPrices,
     close : {PriceBase, NotANumber}]

\* a raw frame as yfinance returns it: cols are the price columns present
\* under one of the names the normalizer recognises, rows come in the order
\* of the frame, which need not be sorted nor free of repeated timestamps
RawFrames ==
    [cols : SUBSET PriceColumns,
     rows : UNION {[1..n -> RawRows] : n \in 0..MaxRawRows}]

\* pd.DataFrame()
NoBars == [cols |-> {}, rows |-> <<>>]

\* out.dropna(subset=["close"])
DropNaClose(rows) == SelectSeq(rows, LAMBDA r : r.close # NotANumber)

\* _flatten: empty for an empty frame or one without close; otherwise the
\* recognised columns that are present, the rows with a close, in the order
\* they came
_flatten(df) ==
    IF df.rows = <<>> THEN NoBars
    ELSE IF "close" \notin df.cols THEN NoBars
    ELSE [cols |-> df.cols, rows |-> DropNaClose(df.rows)]

\* normalize_ohlcv: empty unless open, high, low and close are all picked
normalize_ohlcv(df) ==
    IF df.rows = <<>> THEN NoBars
    ELSE IF ~(PriceColumns \subseteq df.cols) THEN NoBars
    ELSE [cols |-> df.cols, rows |-> DropNaClose(df.rows)]

\* common.download raises when a price column is missing or no row is left
\* after dropna(subset=["open","high","low","close"])
DownloadRaises(df) ==
    \/ ~(PriceColumns \subseteq df.cols)
    \/ DropNaClose(df.rows) = <<>>

norm_flatten ==
    /\ prog = "_flatten"
    /\ pc = "call"
    /\ out' = <<_flatten(raw)>>
    /\ pc' = "returned"
    /\ UNCHANGED <<run, idx, files, score_ev, wr, site, changed>>

norm_normalize_ohlcv ==
    /\ prog = "normalize_ohlcv"
    /\ pc = "call"
    /\ out' = <<normalize_ohlcv(raw)>>
    /\ pc' = "returned"
    /\ UNCHANGED <<run, idx, files, score_ev, wr, site, changed>>

\* download: every try gets the same frame
norm_download ==
    /\ prog = "download"
    /\ pc = "call"
    /\ IF DownloadRaises(raw)
       THEN /\ pc' = "raised"
            /\ UNCHANGED out
       ELSE /\ out' = <<[cols |-> raw.cols, rows |-> DropNaClose(raw.rows)]>>
            /\ pc' = "returned"
    /\ UNCHANGED <<run, idx, files, score_ev, wr, site, changed>>

InitNorm ==
    /\ prog \in {"_flatten", "normalize_ohlcv", "download"}
    /\ syms = <<>>
    /\ cfg = DefaultConfig
    /\ model_pack = NoModel
    /\ idx = 1
    /\ out = <<>>
    /\ pc = "call"
    /\ files = NoFiles
    /\ before = files
    /\ score_ev = NoScore
    /\ wr = NoWrite
    /\ site = NoFiles
    /\ changed = <<>>
    /\ raw \in RawFrames

NextNorm ==
    \/ norm_flatten
    \/ norm_normalize_ohlcv
    \/ norm_download

SpecNorm == InitNorm /\ [][NextNorm]_vars

----------------------------------------------------------------------------
(* Column resolution: ai/featurize.py _find_col, run_swing.py _get_series   *)
(* (train_ai.py _get_series is the same function)                           *)

\* most columns of a frame
MaxCols == 3

\* A column name is a sequence of pieces ("adj", " ", "close" is "adj close");
\* no piece occurs inside another or across two others, so a name is a
\* substring of another one exactly when its pieces occur in it in a row.
LowerPiece(p) ==
    CASE p = "Close" -> "close"
      [] p = "Adj" -> "adj"
      [] p = "High" -> "high"
      [] OTHER -> p

\* str(c).lower()
LowerName(c) == [k \in DOMAIN c |-> LowerPiece(c[k])]

\* the column names a frame of the model can carry
ColumnNames ==
    { <<"close">>, <<"Close">>, <<"Adj", " ", "Close">>,
      <<"close", "_", "spy">>, <<"Adj", " ", "Close", "_", "spy">>,
      <<"adj", "close">>, <<"High">>, <<"high", "_", "spy">> }

\* the candidate lists the callers pass
CloseCandidates ==
    << <<"close">>, <<"adj", " ", "close">>, <<"adj", "_", "close">>,
       <<"adj", "close">> >>
HighCandidates == << <<"high">> >>

\* k in c
Contains(c, k) ==
    \E a \in 1..(Len(c) - Len(k) + 1) : SubSeq(c, a, a + Len(k) - 1) = k

\* c == f"{key}_spy" or c.endswith(f"_{key}") or c.startswith(f"{key}_")
\* or key in c
LooseMatch(c, key) ==
    \/ c = key \o <<"_", "spy">>
    \/ /\ Len(key) + 1 <= Len(c)
       /\ SubSeq(c, Len(c) - Len(key), Len(c)) = <<"_">> \o key
    \/ /\ Len(key) + 1 <= Len(c)
       /\ SubSeq(c, 1, Len(key) + 1) = key \o <<"_">>
    \/ Contains(c, key)

\* the least element of a non-empty set of positions
FirstOf(S) == CHOOSE a \in S : \A b \in S : a <= b

\* one turn of the loop over candidates: position of the column taken for
\* key, 0 when the loop goes on to the next candidate
ResolveKey(cols, key) ==
    LET exact == {a \in DOMAIN cols : cols[a] = key}
        loose == {a \in DOMAIN cols : LooseMatch(cols[a], key)}
    IN  IF exact # {} THEN FirstOf(exact)
        ELSE IF loose # {} THEN FirstOf(loose)
        ELSE 0

\* for name in candidates: ...; position of the column returned, 0 when the
\* loop ends without a return
RECURSIVE ResolveFrom(_, _, _)
ResolveFrom(cols, candidates, k) ==
    IF k > Len(candidates) THEN 0
    ELSE IF ResolveKey(cols, candidates[k]) # 0
         THEN ResolveKey(cols, candidates[k])
         ELSE ResolveFrom(cols, candidates, k + 1)

\* _find_col: the column's position, 0 for None
_find_col(columns, candidates) ==
    ResolveFrom([a \in DOMAIN columns |-> LowerName(columns[a])], candidates, 1)

\* _get_series: the same search, KeyError instead of None
_get_series(columns, candidates) ==
    ResolveFrom([a \in DOMAIN columns |-> LowerName(columns[a])], candidates, 1)

cols_find_col ==
    /\ prog = "_find_col"
    /\ pc = "call"
    /\ out' = <<_find_col(raw.columns, raw.candidates)>>
    /\ pc' = "returned"
    /\ UNCHANGED <<run, idx, files, score_ev, wr, site, changed>>

cols_get_series ==
    /\ prog = "_get_series"
    /\ pc = "call"
    /\ IF _get_series(raw.columns, raw.candidates) = 0
       THEN /\ pc' = "raised"
            /\ UNCHANGED out
       ELSE /\ out' = <<_get_series(raw.columns, raw.candidates)>>
            /\ pc' = "returned"
    /\ UNCHANGED <<run, idx, files, score_ev, wr, site, changed>>

InitCols ==
    /\ prog \in {"_find_col", "_get_series"}
    /\ syms = <<>>
    /\ cfg = DefaultConfig
    /\ model_pack = NoModel
    /\ idx = 1
    /\ out = <<>>
    /\ pc = "call"
    /\ files = NoFiles
    /\ before = files
    /\ score_ev = NoScore
    /\ wr = NoWrite
    /\ site = NoFiles
    /\ changed = <<>>
    /\ raw \in [columns : UNION {[1..n -> ColumnNames] : n \in 1..MaxCols},
                candidates : {CloseCandidates, HighCandidates}]

NextCols ==
    \/ cols_find_col
    \/ cols_get_series

SpecCols == InitCols /\ [][NextCols]_vars

----------------------------------------------------------------------------
(* common.py download: the loop over the tries                              *)

\* largest value of the argument tries
MaxTries == 5

\* what one pass of the loop body meets: yf.download raises, the frame lacks
\* a price column, no row is left after dropna, or the frame is returned
AttemptOutcomes == {"raises", "missing columns", "empty frame", "frame"}

\* 2 ** try_idx
RECURSIVE Pow2(_)
Pow2(n) == IF n = 0 THEN 1 ELSE 2 * Pow2(n - 1)

\* the seconds _sleep_backoff(try_idx) sleeps, with no upper limit
_sleep_backoff_uncapped(try_idx) == Pow2(try_idx)

\* the seconds _sleep_backoff(try_idx) sleeps
_sleep_backoff(try_idx) == Min2(Pow2(try_idx), 8)

\* the body of the try: idx is i of `for i in range(tries)`, changed the
\* outcome of every pass so far
download_try ==
    /\ prog = "download_loop"
    /\ pc = "try"
    /\ idx < raw.tries
    /\ \E o \in AttemptOutcomes :
          /\ changed' = Append(changed, o)
          /\ pc' = IF o = "frame" THEN "returned" ELSE "except"
    /\ UNCHANGED <<run, idx, out, files, score_ev, wr, site>>

\* except Exception: last_exc = e; _sleep_backoff(i); out is the sleeps made
download_except ==
    /\ prog = "download_loop"
    /\ pc = "except"
    /\ out' = Append(out, _sleep_backoff(idx))
    /\ idx' = idx + 1
    /\ pc' = "try"
    /\ UNCHANGED <<run, files, score_ev, wr, site, changed>>

\* the loop is exhausted: raise RuntimeError("download failed ...")
download_failed ==
    /\ prog = "download_loop"
    /\ pc = "try"
    /\ idx >= raw.tries
    /\ pc' = "raised"
    /\ UNCHANGED <<run, idx, out, files, score_ev, wr, site, changed>>

InitDownload ==
    /\ prog = "download_loop"
    /\ syms = <<>>
    /\ cfg = DefaultConfig
    /\ model_pack = NoModel
    /\ idx = 0
    /\ out = <<>>
    /\ pc = "try"
    /\ files = NoFiles
    /\ before = files
    /\ score_ev = NoScore
    /\ wr = NoWrite
    /\ site = NoFiles
    /\ changed = <<>>
    /\ raw \in [tries : 0..MaxTries]

NextDownload ==
    \/ download_try
    \/ download_except
    \/ download_failed

\* the function runs on its own thread of control and every call it makes
\* (yf.download, time.sleep) returns or raises, so a step that can be taken
\* is taken
SpecDownload ==
    InitDownload /\ [][NextDownload]_vars /\ WF_vars(NextDownload)

----------------------------------------------------------------------------
(* common.py ema, generate_signals.py ema: s.ewm(span, adjust=False).mean() *)

\* longest close series, largest close (in whole price units), largest span
MaxEmaBars == 3
MaxClose == 3
MaxSpan == 4

\* the close series of a normalized frame: the rows without a close were
\* dropped, so every value is a number
EmaSeries == UNION {[1..n -> 1..MaxClose] : n \in 1..MaxEmaBars}

\* ewm(alpha, adjust=False).mean() in exact arithmetic, each value a fraction
\* n / d: the first value is the first observation, every later one the
\* average of the previous value with weight 1 - alpha and the observation
\* with weight alpha, divided by the sum of the two weights, which is 1
RECURSIVE ewm_mean(_, _, _)
ewm_mean(s, alpha, t) ==
    IF t = 1 THEN [n |-> s[1], d |-> 1]
    ELSE LET w == ewm_mean(s, alpha, t - 1)
         IN  [n |-> (alpha.den - alpha.num) * w.n + alpha.num * s[t] * w.d,
              d |-> alpha.den * w.d]

\* Wilder's smoothing: alpha = 1 / span
ema_wilder(s, span) ==
    [t \in DOMAIN s |-> ewm_mean(s, [num |-> 1, den |-> span], t)]

\* span=...: alpha = 2 / (span + 1)
ema(s, span) ==
    [t \in DOMAIN s |-> ewm_mean(s, [num |-> 2, den |-> span + 1], t)]

ema_call ==
    /\ prog = "ema"
    /\ pc = "call"
    /\ out' = ema(raw.close, raw.span)
    /\ pc' = "returned"
    /\ UNCHANGED <<run, idx, files, score_ev, wr, site, changed>>

InitEma ==
    /\ prog = "ema"
    /\ syms = <<>>
    /\ cfg = DefaultConfig
    /\ model_pack = NoModel
    /\ idx = 1
    /\ out = <<>>
    /\ pc = "call"
    /\ files = NoFiles
    /\ before = files
    /\ score_ev = NoScore
    /\ wr = NoWrite
    /\ site = NoFiles
    /\ changed = <<>>
    /\ raw \in [close : EmaSeries, span : 1..MaxSpan]

NextEma == ema_call

SpecEma == InitEma /\ [][NextEma]_vars

----------------------------------------------------------------------------
(* run_swing.backup.py and generate_signals.backup.py add_indicators: the   *)
(* oscillator (RSI)                                                         *)

\* 1 / EPSILON is what replaces a smoothed loss of 0. The source takes 1e-9;
\* the model takes a larger positive value so that the fractions stay within
\* TLC's integers: the value enters the result only where the loss is 0
EPSILON_INV == 1000

\* up = delta.clip(lower=0) and down = -delta.clip(upper=0) of
\* delta = c.diff(), from the second bar on (the first delta is NaN)
UpMoves(c) == [k \in 1..(Len(c) - 1) |-> Max2(c[k + 1] - c[k], 0)]
DownMoves(c) == [k \in 1..(Len(c) - 1) |-> Max2(c[k] - c[k + 1], 0)]

\* the smoothed loss as it is, zero included
keep_zero(x) == x

\* roll_down.replace(0, 1e-9)
replace_zero(x) == IF x.n = 0 THEN [n |-> 1, d |-> EPSILON_INV] ELSE x

\* 100 - (100 / (1 + rs)) with rs = ru / rd, as floating point gives it:
\* 0 / 0 is NaN, x / 0 is inf and 100 / (1 + inf) is 0
rsi_value(ru, rd) ==
    IF rd.n = 0
    THEN IF ru.n = 0 THEN NaN ELSE Num(100, 1)
    ELSE LET rs == [n |-> ru.n * rd.d, d |-> ru.d * rd.n]
         IN  Num(100 * rs.n, rs.d + rs.n)

\* df["rsi"]: NaN on the first bar; the ewm of up and of down starts at the
\* first number, which is the second bar
rsi(c, rsi_len) ==
    [t \in DOMAIN c |->
        IF t = 1 THEN NaN
        ELSE LET alpha == [num |-> 1, den |-> rsi_len]
                 roll_up == ewm_mean(UpMoves(c), alpha, t - 1)
                 roll_down == ewm_mean(DownMoves(c), alpha, t - 1)
             IN  rsi_value(roll_up, replace_zero(roll_down))]

add_indicators_rsi ==
    /\ prog \in {"run_swing.backup", "generate_signals.backup"}
    /\ pc = "add_indicators"
    /\ out' = rsi(raw.close, raw.rsi_len)
    /\ pc' = "returned"
    /\ UNCHANGED <<run, idx, files, score_ev, wr, site, changed>>

InitRsi ==
    /\ prog \in {"run_swing.backup", "generate_signals.backup"}
    /\ syms = <<>>
    /\ cfg = DefaultConfig
    /\ model_pack = NoModel
    /\ idx = 1
    /\ out = <<>>
    /\ pc = "add_indicators"
    /\ files = NoFiles
    /\ before = files
    /\ score_ev = NoScore
    /\ wr = NoWrite
    /\ site = NoFiles
    /\ changed = <<>>
    /\ raw \in [close : EmaSeries, rsi_len : 1..MaxSpan]

NextRsi == add_indicators_rsi

SpecRsi == InitRsi /\ [][NextRsi]_vars

----------------------------------------------------------------------------
(* run_swing.py main with no model file and swing_min_prob: 0.5             *)

InitUptrend ==
    /\ prog = "run_swing"
    /\ syms \in SymbolOrders
    /\ cfg \in [min_prob : {5000}, min_rr10 : {10, 14},
                trend_confirm : BOOLEAN, retest_required : BOOLEAN]
    /\ model_pack = NoModel
    /\ idx = 1
    /\ out = <<>>
    /\ pc = "loop"
    /\ files = NoFiles
    /\ before = files
    /\ score_ev = NoScore
    /\ wr = NoWrite
    /\ site = NoFiles
    /\ changed = <<>>
    /\ raw = <<>>

SpecUptrend == InitUptrend /\ [][NextSwing]_vars

----------------------------------------------------------------------------
(* generate_signals.py main: the sort and the trim on more rows than 25     *)

\* row lists of TRIM_TOP - 1 to TRIM_TOP + 2 rows, numbered in the order
\* they were appended: three of them take any of four scores, the others
\* share one score
TrimInputs ==
    {[k \in 1..n |->
        [symbol |-> k,
         score |-> IF k = 1 THEN a
                   ELSE IF k = n THEN b
                   ELSE IF k = TRIM_TOP \div 2 THEN c
                   ELSE 500]] :
       n \in (TRIM_TOP - 1)..(TRIM_TOP + 2),
       a \in {-900, 0, 500, 900}, b \in {-900, 0, 500, 900},
       c \in {-900, 0, 500, 900}}

\* rows.sort(key=lambda r: abs(r["score"]), reverse=True); rows = rows[:25]
trim_sort ==
    /\ prog = "sort_and_trim"
    /\ pc = "call"
    /\ out' = Trim(SortRows(raw.rows))
    /\ pc' = "returned"
    /\ UNCHANGED <<run, idx, files, score_ev, wr, site, changed>>

InitTrim ==
    /\ prog = "sort_and_trim"
    /\ syms = <<>>
    /\ cfg = DefaultConfig
    /\ model_pack = NoModel
    /\ idx = 1
    /\ out = <<>>
    /\ pc = "call"
    /\ files = NoFiles
    /\ before = files
    /\ score_ev = NoScore
    /\ wr = NoWrite
    /\ site = NoFiles
    /\ changed = <<>>
    /\ raw \in [rows : TrimInputs]

SpecTrim == InitTrim /\ [][trim_sort]_vars

----------------------------------------------------------------------------
(* Properties *)

NonEmptyList(c) == c.kind = "list" /\ c.items # <<>>

SwingFeed == files["signals_swing.json"]

GenFeed == files["signals.json"]

\* the heuristic probability, from the two facts the loop pass recorded
HeuristicOf(ev) == IF ev.up /\ ev.mid THEN 6500 ELSE 4000

PackMatches == model_pack.kind = "dict" /\ model_pack.feats = FEATS_SWING

\* C1: in run_swing.main, predict_proba is called only when the pack's feature
\* list equals FEATS_SWING in names and order; with any other pack (other
\* names, other order, other length, empty list, no model) the probability
\* the symbol goes on with is the heuristic value and the run goes on.
C1_FeatureGate ==
    score_ev.scored =>
        /\ score_ev.invoked => PackMatches
        /\ ~(PackMatches /\ model_pack.model) =>
              /\ ~score_ev.invoked
              /\ score_ev.proba = HeuristicOf(score_ev)
              /\ pc # "raised"

\* a pack that declares the ten names in another order scored a symbol with
\* the heuristic, and the row was appended
C1_Witness ==
    /\ score_ev.scored
    /\ model_pack.kind = "dict"
    /\ model_pack.model
    /\ model_pack.feats = SwapFirstTwo(FEATS_SWING)
    /\ ~score_ev.invoked
    /\ score_ev.emitted
    /\ out # <<>>

\* C2: no row is appended whose risk |entry - stop| is zero or negative, or
\* whose first target's reward/risk is below the configured minimum (the
\* minimum is swing_min_rr; generate_signals.py reads none).
C2_PositiveRisk ==
    score_ev.emitted =>
        /\ score_ev.risk > 0
        /\ prog = "run_swing" =>
              score_ev.reward * 10 >= cfg.min_rr10 * score_ev.risk

StrictlyUp(seq) == \A k \in 1..(Len(seq) - 1) : seq[k] < seq[k + 1]

StrictlyDown(seq) == \A k \in 1..(Len(seq) - 1) : seq[k] > seq[k + 1]

\* C3: every row, in the rounded values written, has stop < entry < targets[0]
\* < targets[1] < ... for a long trade and stop > entry > targets[0] > ... for
\* a short trade.
C3_PlanGeometry ==
    \A k \in DOMAIN out :
        LET r == out[k]
            line == <<r.stop, r.entry>> \o r.targets
        IN  IF prog = "generate_signals" /\ r.direction = "SHORT"
            THEN StrictlyDown(line) ELSE StrictlyUp(line)

\* C4: the list a generator writes is in descending order of probability.
C4_SortedByProb ==
    (prog = "run_swing" /\ pc = "done") =>
        \A a, b \in DOMAIN SwingFeed.items :
            a < b => SwingFeed.items[a].prob >= SwingFeed.items[b].prob

\* C5: rows of equal sort key are written in ascending lexical order of
\* their symbol.
C5_TiesBySymbol ==
    (prog = "generate_signals" /\ pc = "done") =>
        \A a, b \in DOMAIN GenFeed.items :
            (a < b /\ AbsScore(GenFeed.items[a]) = AbsScore(GenFeed.items[b]))
                => LexRank(GenFeed.items[a].symbol)
                     < LexRank(GenFeed.items[b].symbol)

\* C6: when a run accepts no candidate, the result is exactly the fixed
\* fallback set of placeholder signals, each carrying a marker (a note
\* field) that tells it from a real signal.
C6_FallbackOnEmpty ==
    (prog = "generate_signals" /\ pc = "done" /\ out = <<>>) =>
        /\ GenFeed = Content("list", demo_intraday)
        /\ \A k \in DOMAIN GenFeed.items : "note" \in DOMAIN GenFeed.items[k]

\* C7: write_if_empty leaves a file that parses to a non-empty list unchanged
\* and returns False for it; it writes the demo rows only over a file that
\* is missing, blank or parses to an empty value.
C7_NeverReplacesRealFeed ==
    prog = "make_demo_feeds" =>
        \A k \in DOMAIN DemoCalls :
            LET n == DemoCalls[k].name
            IN  /\ NonEmptyList(before[n]) =>
                      /\ files[n] = before[n]
                      /\ k < idx => changed[k] = <<n, FALSE>>
                /\ files[n] # before[n] =>
                      \/ before[n].kind \in {"missing", "blank", "object"}
                      \/ before[n] = Content("list", <<>>)

\* the script ran to its end over a real intraday feed and a missing swing
\* feed: the first is as it was, the second holds the demo rows
C7_Witness ==
    /\ prog = "make_demo_feeds"
    /\ pc = "done"
    /\ NonEmptyList(before["signals.json"])
    /\ changed[1] = <<"signals.json", FALSE>>
    /\ before["signals_swing.json"] = Missing
    /\ SwingFeed = Content("list", demo_swing)
    /\ changed[2] = <<"signals_swing.json", TRUE>>

\* C8: writing the feed is all-or-nothing: after a failed run the file holds
\* what it held before the run, and the file never holds a truncated or
\* partly written list (stated for a run that starts over a feed that holds
\* a list of rows).
C8_AllOrNothing ==
    (prog = "generate_signals" /\ NonEmptyList(before["signals.json"])) =>
        /\ pc \in {"failed", "raised"} => GenFeed = before["signals.json"]
        /\ GenFeed.kind \notin {"blank", "partial"}

\* C9: a failure on one symbol (fetch error, unresolvable price column,
\* missing column, model error) never ends the run: the loop goes on to the
\* other symbols and the output is written.
C9_SymbolFailureIsolated ==
    prog = "run_swing" => pc # "raised"

\* C10: after a generator run has completed, the feed file exists and holds
\* a non-empty list.
C10_FeedNeverEmpty ==
    (prog \in {"run_swing", "generate_signals"} /\ pc = "done") =>
        /\ NonEmptyList(IF prog = "run_swing" THEN SwingFeed ELSE GenFeed)

\* C11: with horizon H, a bar t < n - H carries the label 1 iff
\* close[t+H] / close[t] - 1 > 0 and 0 otherwise, and the last H bars carry
\* no label, so that they are not among the rows of the training data.
C11_ForwardLabels ==
    (prog \in {"train_ai", "train_from_df"} /\ pc = "data") =>
        LET n == Len(raw.close)
            h == raw.horizon
        IN  /\ \A t \in 1..(n - h) :
                  \E k \in DOMAIN out :
                      /\ out[k].bar = t
                      /\ out[k].label = 1 <=> raw.close[t + h] > raw.close[t]
            /\ \A k \in DOMAIN out : out[k].bar <= n - h

\* C12: the retest flag (break_and_retest, and rt_orb_high of
\* make_features) is false on every bar at or before the first bar of its
\* session with close > opening-range high; it is true only on a bar that
\* comes after such a bar in the same session.
C12_RetestAfterBreakout ==
    (prog \in {"make_features", "break_and_retest"} /\ pc = "returned") =>
        \A k \in DOMAIN out :
            out[k].retest =>
                \E j \in 1..(k - 1) : out[j].d = out[k].d /\ out[j].brk

\* the bars of session d that are among its first n
OpeningBars(bars, d, n) ==
    {s \in DOMAIN bars :
        /\ bars[s].d = d
        /\ Cardinality({u \in 1..s : bars[u].d = d}) <= n}

\* C13: for every session and configured bar count N, the opening-range
\* high and low are the maximum high and the minimum low of exactly the
\* first N bars of the session, the same on every bar of the session.
C13_OpeningRangeOfFirstN ==
    (prog \in {"make_features", "opening_range", "orb_score"}
     /\ pc = "returned") =>
        /\ \A k \in DOMAIN out :
              LET first == OpeningBars(raw.bars, out[k].d, raw.orb_bars)
              IN  /\ \A s \in first : raw.bars[s].high <= out[k].orb_high
                  /\ \E s \in first : raw.bars[s].high = out[k].orb_high
                  /\ \A s \in first : raw.bars[s].low >= out[k].orb_low
                  /\ \E s \in first : raw.bars[s].low = out[k].orb_low
        /\ prog = "make_features" =>
              \A t \in DOMAIN raw.bars : out[t].bar = t

\* C14: the feature list a trainer stores in the artifact is what the
\* inference side checks against: an artifact written by train_ai.main
\* passes the feature check of run_swing.main and its model is called; an
\* artifact that declares another list (the 14 names of
\* ai/train.train_from_df) is not used for prediction.
C14_TrainerMatchesEngine ==
    /\ TRAIN_FEATS_SWING = FEATS_SWING
    /\ (prog = "run_swing" /\ score_ev.scored) =>
          /\ raw.trainer = "train_ai" => score_ev.invoked
          /\ raw.trainer = "train_from_df" =>
                /\ ~score_ev.invoked
                /\ score_ev.proba = HeuristicOf(score_ev)

\* both artifacts were read by a swing run that scored a symbol: the one of
\* train_ai.main had its model called and the row was appended
C14_Witness ==
    /\ prog = "run_swing"
    /\ raw.trainer = "train_ai"
    /\ model_pack.feats = TRAIN_FEATS_SWING
    /\ score_ev.scored
    /\ score_ev.invoked
    /\ score_ev.emitted

\* C15: a candidate is emitted only if its probability (or score) is at
\* least the minimum configured in config.yaml: cfg.min_prob for the
\* probability of a swing row, and the same configured minimum for the
\* score a generate_signals row is ranked by (generate_signals.py reads
\* only the symbol lists from config.yaml).
C15_AtLeastMinimum ==
    /\ (prog = "run_swing" /\ score_ev.emitted) =>
          /\ score_ev.proba >= cfg.min_prob
          /\ out[Len(out)].prob >= cfg.min_prob
    /\ prog = "generate_signals" =>
          \A k \in DOMAIN out : AbsScore(out[k]) >= cfg.min_prob

\* the two levels a plan chooses its stop from, before rounding: the
\* mid-EMA value and the recent low (long) or recent high (short)
StopLevels ==
    IF prog = "run_swing_plan" THEN {raw.df.ema20, raw.df.low3}
    ELSE IF raw.direction = "LONG" THEN {raw.df.e20, raw.df.low5}
    ELSE {raw.df.e20, raw.df.high5}

\* the rounding the plan applies to the stop it writes
StopRounded(x) == IF prog = "make_tradeplan" THEN Round2(x) ELSE Round4(x)

AdverseLevels ==
    IF raw.direction = "LONG" THEN {x \in StopLevels : x < raw.df.close}
    ELSE {x \in StopLevels : x > raw.df.close}

\* C16 as stated: the stop is the tighter (closer to entry) of the mid-EMA
\* value and the lowest low of the last K bars among those below entry
\* (long), of the mid-EMA value and the highest high among those above
\* entry (short).
C16_TighterStop ==
    (prog \in {"make_entry_stop_targets", "run_swing_plan", "make_tradeplan"}
     /\ pc = "returned" /\ AdverseLevels # {}) =>
        \E x \in AdverseLevels :
            /\ \A y \in AdverseLevels :
                  Abs(raw.df.close - x) <= Abs(raw.df.close - y)
            /\ out[1].stop = StopRounded(x)

\* C16 amended: the stop is the level farther from entry, the lower of the
\* mid-EMA value and the recent low for a long trade and the higher of the
\* mid-EMA value and the recent high for a short trade: it is one of the
\* two levels and no level lies beyond it; make_tradeplan alone replaces it
\* by 0.97 * entry when that level is not below entry.
C16_StopIsFartherLevel ==
    (prog \in {"make_entry_stop_targets", "run_swing_plan", "make_tradeplan"}
     /\ pc = "returned") =>
        IF prog = "make_tradeplan" /\ \A x \in StopLevels : x >= raw.df.close
        THEN out[1].stop = Round2Frac(97 * raw.df.close, 100)
        ELSE /\ \E x \in StopLevels : out[1].stop = StopRounded(x)
             /\ \A x \in StopLevels :
                   IF raw.direction = "LONG"
                   THEN out[1].stop <= StopRounded(x)
                   ELSE out[1].stop >= StopRounded(x)

\* a long plan of make_entry_stop_targets whose EMA and recent low both lie
\* below the close and differ: the stop written is the lower one
C16_Witness ==
    /\ prog = "make_entry_stop_targets"
    /\ pc = "returned"
    /\ raw.direction = "LONG"
    /\ raw.df.e20 < raw.df.low5
    /\ raw.df.low5 < raw.df.close
    /\ out[1].stop = Round4(raw.df.e20)
    /\ out[1].stop < Round4(raw.df.low5)

\* the normalizer returned a frame with rows: a usable bar series
UsableBars ==
    /\ prog \in {"_flatten", "normalize_ohlcv", "download"}
    /\ pc = "returned"
    /\ out[1].rows # <<>>

\* C17: normalization fails (an error, or the empty frame) whenever one of
\* open, high, low, close cannot be resolved: a usable bar series has all
\* four columns.
C17_AllFourOrFailure ==
    UsableBars => PriceColumns \subseteq out[1].cols

\* C18: the normalized series is sorted ascending by timestamp without
\* repeated timestamps, and of several raw rows with one timestamp (and a
\* close) the last one is the row kept.
C18_SortedNoDuplicates ==
    UsableBars =>
        LET rows == out[1].rows
        IN  /\ \A k \in 1..(Len(rows) - 1) : rows[k].ts < rows[k + 1].ts
            /\ \A k \in DOMAIN rows :
                  \A j \in DOMAIN raw.rows :
                      (raw.rows[j].ts = rows[k].ts
                       /\ raw.rows[j].close # NotANumber
                       /\ \A m \in (j + 1)..Len(raw.rows) :
                             \/ raw.rows[m].ts # rows[k].ts
                             \/ raw.rows[m].close = NotANumber)
                          => rows[k] = raw.rows[j]

\* C19: a raw bar with low > high is dropped: no such bar is in the
\* normalized series.
C19_NoInvertedBars ==
    UsableBars =>
        \A k \in DOMAIN out[1].rows : out[1].rows[k].low <= out[1].rows[k].high

\* the resolver returned a column: its position, lower-cased name and request
ColumnChosen ==
    /\ prog \in {"_find_col", "_get_series"}
    /\ pc = "returned"
    /\ out[1] # 0

\* a column holding an adjusted close: its lower-cased name holds one of the
\* adjusted-close aliases
IsAdjustedClose(c) ==
    \E k \in 2..Len(CloseCandidates) : Contains(LowerName(c), CloseCandidates[k])

\* a column the request for close can resolve that is not an adjusted close
IsPlainClose(c) ==
    /\ \/ LowerName(c) = <<"close">>
       \/ LooseMatch(LowerName(c), <<"close">>)
    /\ ~IsAdjustedClose(c)

\* an exact match for the requested name wins whatever the column order
ExactMatchWins ==
    ColumnChosen =>
        ((\E a \in DOMAIN raw.columns :
              LowerName(raw.columns[a]) = raw.candidates[1])
         => LowerName(raw.columns[out[1]]) = raw.candidates[1])

\* without an exact match the first loose match in column order is taken
FirstLooseMatchOtherwise ==
    ColumnChosen =>
        LET cols == raw.columns
            key == raw.candidates[1]
            loose == {a \in DOMAIN cols : LooseMatch(LowerName(cols[a]), key)}
        IN  ((\A a \in DOMAIN cols : LowerName(cols[a]) # key) /\ loose # {})
                => out[1] = FirstOf(loose)

\* an adjusted close is taken for close only when no close column resolves
AdjustedCloseOnlyAsFallback ==
    (ColumnChosen /\ raw.candidates = CloseCandidates
     /\ IsAdjustedClose(raw.columns[out[1]]))
        => \A a \in DOMAIN raw.columns : ~IsPlainClose(raw.columns[a])

\* C20: column resolution is prioritised: an exact (lower-cased) match for
\* the requested name is chosen over every loose match regardless of column
\* order, the first loose match in column order is chosen only without an
\* exact match, and close falls back to an adjusted-close alias only when no
\* close column is resolvable.
C20_PrioritisedResolution ==
    /\ ExactMatchWins
    /\ FirstLooseMatchOtherwise
    /\ AdjustedCloseOnlyAsFallback

\* run_swing.main runs without a model file: load_daily_model returned None
RunsWithoutModel == prog = "run_swing" /\ model_pack = NoModel

\* without a model file every scored symbol goes on with the heuristic
HeuristicOnlyWithoutModel ==
    (RunsWithoutModel /\ score_ev.scored) =>
        /\ ~score_ev.invoked
        /\ score_ev.proba = HeuristicOf(score_ev)

\* without a model file a finished run has written the rows it accepted
WritesWithoutModel ==
    (RunsWithoutModel /\ pc = "done") => SwingFeed = Content("list", out)

\* C21: when the model file does not exist the run is not an error:
\* load_daily_model returns None, every symbol that is scored is scored with
\* the heuristic probability, and the run completes (no exception leaves
\* main) and writes its output.
C21_NoModelNotAnError ==
    /\ HeuristicOnlyWithoutModel
    /\ RunsWithoutModel => pc # "raised"
    /\ WritesWithoutModel

\* the passes of the loop body made so far
Attempts == Len(changed)

\* at most tries attempts; a frame ends the call at once, so only the last
\* attempt can have given one; the call returns exactly then; it raises only
\* after tries failed attempts; the k-th sleep follows the failed attempt
\* with index k - 1 and lasts min(2^(k-1), 8) seconds
BoundedRetries ==
    prog = "download_loop" =>
        /\ Attempts <= raw.tries
        /\ \A k \in 1..(Attempts - 1) : changed[k] # "frame"
        /\ pc = "returned" <=> (Attempts > 0 /\ changed[Attempts] = "frame")
        /\ pc = "raised" =>
              /\ Attempts = raw.tries
              /\ \A k \in 1..Attempts : changed[k] # "frame"
        /\ \A k \in DOMAIN out : out[k] = Min2(Pow2(k - 1), 8)

\* C22: download(ticker, period, interval, tries) always terminates after at
\* most tries fetch attempts: it returns at the first attempt that yields a
\* non-empty frame with open/high/low/close, raises after tries failed
\* attempts in a row, and waits min(2^i, 8) seconds after failed attempt i.
C22_BoundedDownload ==
    /\ []BoundedRetries
    /\ <>(pc \in {"returned", "raised"})

\* the call gave up after MaxTries failed attempts, the last waits at the cap
C22_Witness ==
    /\ prog = "download_loop"
    /\ pc = "raised"
    /\ raw.tries = MaxTries
    /\ Attempts = MaxTries
    /\ out[MaxTries] = 8

\* fractions a.n / a.d and b.n / b.d with positive denominators: a <= b
FracLeq(a, b) == a.n * b.d <= b.n * a.d

\* C23: for every span s > 0 and every close series, ema[0] = close[0],
\* ema[t] = ema[t-1] + (2/(s+1)) * (close[t] - ema[t-1]) for t > 0, and
\* ema[t] lies between ema[t-1] and close[t] inclusive.
C23_EmaRecurrence ==
    (prog = "ema" /\ pc = "returned") =>
        LET c == raw.close
            s == raw.span
        IN  /\ Len(out) = Len(c)
            /\ out[1].n = c[1] * out[1].d
            /\ \A t \in 2..Len(c) :
                  LET p == out[t - 1]
                      step == [n |-> (s + 1) * p.n + 2 * (c[t] * p.d - p.n),
                               d |-> (s + 1) * p.d]
                      ct == [n |-> c[t], d |-> 1]
                  IN  /\ out[t].n * step.d = step.n * out[t].d
                      /\ \/ FracLeq(p, out[t]) /\ FracLeq(out[t], ct)
                         \/ FracLeq(ct, out[t]) /\ FracLeq(out[t], p)

\* the EMA of a series that rises and then falls, with a span above 1
C23_Witness ==
    /\ prog = "ema"
    /\ pc = "returned"
    /\ raw.span > 1
    /\ Len(raw.close) = MaxEmaBars
    /\ raw.close[1] < raw.close[2]
    /\ raw.close[3] < raw.close[2]
    /\ out[2].n # raw.close[2] * out[2].d

\* C24: for every close series, flat and never-declining ones included, the
\* oscillator add_indicators computes is a number within [0, 100] on every
\* bar from the second on (the first has no price change), and no division
\* by zero occurs: a zero smoothed loss is replaced by a small epsilon.
C24_OscillatorInRange ==
    (pc = "returned"
     /\ prog \in {"run_swing.backup", "generate_signals.backup"}) =>
        /\ Len(out) = Len(raw.close)
        /\ \A t \in 2..Len(out) :
              /\ ~out[t].nan
              /\ out[t].den > 0
              /\ 0 <= out[t].num
              /\ out[t].num <= 100 * out[t].den

\* the oscillator of an all-flat series of full length: defined, and 0
C24_Witness ==
    /\ pc = "returned"
    /\ prog \in {"run_swing.backup", "generate_signals.backup"}
    /\ Len(raw.close) = MaxEmaBars
    /\ \A t \in DOMAIN raw.close : raw.close[t] = raw.close[1]
    /\ ~out[MaxEmaBars].nan
    /\ out[MaxEmaBars].num = 0

\* the symbol just scored is in a clean uptrend: its last row has
\* close > ema20 > ema200 and the oscillator within 45..70 (55 in the
\* scenario), and the probability is the heuristic one
CleanUptrendScored ==
    /\ prog = "run_swing"
    /\ model_pack = NoModel
    /\ score_ev.scored
    /\ score_ev.up
    /\ score_ev.mid

\* C25: on a clean uptrend the heuristic probability exceeds a minimum
\* probability of 0.5, the candidate passes the probability threshold, and a
\* signal emitted for it has stop < entry < every target (in the values
\* written).
C25_CleanUptrend ==
    (CleanUptrendScored /\ cfg.min_prob = 5000) =>
        /\ score_ev.proba > 5000
        /\ score_ev.proba >= cfg.min_prob
        /\ score_ev.emitted =>
              LET r == out[Len(out)]
              IN  /\ r.stop < r.entry
                  /\ \A k \in DOMAIN r.targets : r.entry < r.targets[k]

\* the feed names normalize_and_copy has dealt with and found present
Normalized ==
    {NormNames[k] : k \in {j \in 1..(idx - 1) : before[NormNames[j]] # Missing}}

\* C26: after normalize_and_copy has run on a feed file, the source file and
\* the copy in the site's data directory both hold a flat list, never an
\* object; a file that held a list already (as after an earlier run) is left
\* with the same content.
C26_FlatListDelivered ==
    (prog = "normalize_and_copy" /\ pc \in {"loop", "done"}) =>
        \A n \in Normalized :
            /\ files[n].kind = "list"
            /\ site[n].kind = "list"
            /\ site[n] = files[n]
            /\ before[n].kind = "list" => files[n] = before[n]

\* C27 as stated: with the default swing_min_rr of 1.4 run_swing.main emits
\* no candidate, whatever the input.
C27_NothingEmittedByDefault ==
    (prog = "run_swing" /\ cfg.min_rr10 = 14) => ~score_ev.emitted

\* C27, amended: in run_swing.main the first target is placed at 1.0 times
\* risk, so t1 - price differs from risk by the 4-decimal rounding of the
\* target only (at most 0.00005) for every candidate; a candidate is emitted
\* only when (t1 - price) / risk reaches swing_min_rr, and with the default
\* of 1.4 only when its risk is at most 0.000125, where the rounding lifts
\* the ratio to 1.4 or more.
C27_RewardIsOneRisk ==
    /\ \A b \in SwingBases :
          SwingRisk(b) > 0 => Abs(SwingReward(b) - SwingRisk(b)) <= 5
    /\ (prog = "run_swing" /\ score_ev.emitted) =>
          /\ Abs(score_ev.reward - score_ev.risk) <= 5
          /\ score_ev.reward * 10 >= cfg.min_rr10 * score_ev.risk
          /\ cfg.min_rr10 = 14 => 2 * score_ev.risk <= 25

\* a candidate with a risk of a few 1e-5 was emitted under the default
\* swing_min_rr of 1.4
C27_Witness ==
    /\ prog = "run_swing"
    /\ cfg.min_rr10 = 14
    /\ score_ev.emitted
    /\ score_ev.risk > 0
    /\ 2 * score_ev.risk <= 25
    /\ score_ev.reward > score_ev.risk

\* C28: the plan run_swing.backup writes for an equity (make_tradeplan's stop
\* and targets, the entry rounded to 2 decimals) has its stop strictly below
\* the entry and its three targets strictly increasing above the entry.
C28_BackupPlanGeometry ==
    (prog = "make_tradeplan" /\ pc = "returned") =>
        /\ out[1].stop < out[1].entry
        /\ Len(out[1].targets) = 3
        /\ StrictlyUp(<<out[1].entry>> \o out[1].targets)

\* for every pair of frames with data from which a row is built: the row is
\* LONG iff the blended score is >= 0, and LONG when there is no daily data
DirectionFollowsScore ==
    \A d1 \in D1Frames : \A m15 \in M15Frames(d1) :
        (~(d1.empty /\ m15.empty) /\ ~BlendRaises(d1, m15)
         /\ (IF ~d1.empty THEN d1 ELSE m15).hl) =>
            LET r == GenRow("SPY", d1, m15)
                score == blend_score(d1, m15)
            IN  /\ score.den > 0
                /\ r.direction = "LONG" <=> score.num >= 0
                /\ r.direction = "SHORT" <=> score.num < 0
                /\ d1.empty => (score.num = 0 /\ r.direction = "LONG")

\* the rows kept after the sort and the trim are at most 25, in descending
\* order of absolute score, taken from the rows given, and no row left out
\* has a larger absolute score than a row kept
TopByAbsScore ==
    (prog = "sort_and_trim" /\ pc = "returned") =>
        /\ Len(out) = Min2(Len(raw.rows), TRIM_TOP)
        /\ \A a, b \in DOMAIN out :
              a < b => /\ AbsScore(out[a]) >= AbsScore(out[b])
                       /\ out[a].symbol # out[b].symbol
        /\ \A a \in DOMAIN out : \E k \in DOMAIN raw.rows : raw.rows[k] = out[a]
        /\ \A k \in DOMAIN raw.rows :
              (\A a \in DOMAIN out : out[a] # raw.rows[k]) =>
                  \A a \in DOMAIN out :
                      AbsScore(out[a]) >= AbsScore(raw.rows[k])

\* C29: in generate_signals.main every symbol with any data produces exactly
\* one record (no symbol ends the loop, no symbol has two records), LONG iff
\* its blended score is >= 0 and SHORT otherwise; the output is sorted by
\* absolute score descending and truncated to at most 25 records.
C29_OneRecordPerSymbol ==
    prog = "generate_signals" =>
        /\ pc # "raised"
        /\ (pc = "loop" /\ idx = 1) => DirectionFollowsScore
        /\ \A a, b \in DOMAIN out : a # b => out[a].symbol # out[b].symbol
        /\ pc = "loop" =>
              /\ Len(out) <= idx - 1
              /\ \A a \in DOMAIN out :
                    \E k \in 1..(idx - 1) : syms[k] = out[a].symbol
        /\ pc \in {"write", "done"} =>
              /\ Len(out) <= TRIM_TOP
              /\ \A a, b \in DOMAIN out :
                    a < b => AbsScore(out[a]) >= AbsScore(out[b])

====
